---- MODULE Spec2Model ----
(***************************************************************************)
(* SKU matching service of DocProcessor (backend/services/sku_matcher.py): *)
(* one SKUMatcherService instance holding an optional catalog retriever,   *)
(* an upload that rebuilds the index (create_catalog_index) and a matcher  *)
(* (match_line_items) that suspends at every aretrieve call.  Both run as  *)
(* coroutines of one event loop: create_catalog_index has no await and     *)
(* runs as one step, match_line_items is one step per suspension, so an    *)
(* upload can run between two retrievals of one batch.                     *)
(*                                                                         *)
(* Python values are tagged records: None, Float(v) with v in tenths (so   *)
(* One is 1.0), NaN, and Absent for a missing score attribute.             *)
(***************************************************************************)
EXTENDS Integers, Sequences, FiniteSets, TLC

\* ---------------------------------------------------------------- bounds
MaxBatch == 2      \* longest RFQ batch
MaxOps   == 3      \* service calls (uploads and match calls) in one run

\* ------------------------------------------------------- python values
None     == [none |-> TRUE]
Float(v) == [float |-> v]       \* v counts tenths
NaN      == [nan |-> TRUE]
Absent   == [absent |-> TRUE]   \* hasattr(top_match, 'score') is false
Zero     == Float(0)            \* 0.0
One      == Float(10)           \* 1.0

\* catalog_required_columns of Settings
catalog_required_columns ==
    <<"sku", "standard_name", "category", "manufacturer", "description", "unit_price">>

Range(s) == {s[k] : k \in 1..Len(s)}
Last(s)  == s[Len(s)]

\* --------------------------------------------------------------- inputs
\* one row of the catalog DataFrame
Cell(column, f, k) == [column |-> column, family |-> f, row |-> k]
Row(f, k) ==
    [sku           |-> Cell("sku", f, k),
     standard_name |-> Cell("standard_name", f, k),
     category      |-> Cell("category", f, 0),
     manufacturer  |-> Cell("manufacturer", f, 0),
     description   |-> Cell("description", f, k),
     unit_price    |-> k]

\* two uploads with every required column and disjoint SKUs
CatalogA == [columns |-> Range(catalog_required_columns),
             rows    |-> <<Row("A", 1), Row("A", 2)>>]
CatalogB == [columns |-> Range(catalog_required_columns),
             rows    |-> <<Row("B", 1)>>]
GoodCatalogs == {CatalogA, CatalogB}

\* an upload whose header lacks a required column
CatalogNoDescription ==
    [columns |-> Range(catalog_required_columns) \ {"description"},
     rows    |-> <<Row("A", 1)>>]

Catalogs == GoodCatalogs \cup {CatalogNoDescription}

RFQLineItems ==
    {[rfq_id |-> "RFQ-1", line_item |-> "M8 steel bolt", quantity |-> 100,
      unit_price |-> 45, date_ |-> "2024-01-01"],
     [rfq_id |-> "RFQ-1", line_item |-> "hex nut", quantity |-> 0,
      unit_price |-> 0, date_ |-> "2024-01-02"]}

Batches == UNION {[1..n -> RFQLineItems] : n \in 0..MaxBatch}

\* raw scores the engine may report: -5.0, 0.0, 0.5, 1.0, 37.2, NaN, null, none
RawScores == {Float(-50), Float(0), Float(5), Float(10), Float(372), NaN, None, Absent}

VARIABLES
    catalog_retriever,   \* self.catalog_retriever: None or a retriever
    nops,                \* service calls made so far
    m_pc,                \* match_line_items: "idle" | "awaiting"
    m_items,             \* rfq_data.line_items of the running call
    m_i,                 \* position of the item whose aretrieve is pending
    enriched_items,      \* local list of the running call
    m_target,            \* retriever object the pending aretrieve was called on
    m_query,             \* query string the pending aretrieve was called with
    m_start,             \* history: held index when the running call started
    m_from,              \* history: the index each retrieval of the call went to
    m_lastRaw,           \* history: what the last completed retrieval delivered
    returned,            \* the call the last step completed and its outcome, else None
    everLoaded,          \* history: some create_catalog_index call has succeeded
    signalled,           \* history: failures raised to a caller, by failure kind
    engine,              \* deterministic engine: the answer fixed so far per index and query
    first                \* history: first match call since the last upload

mvars == <<m_pc, m_items, m_i, enriched_items, m_target, m_query, m_start, m_from, m_lastRaw>>
dvars == <<engine, first>>
vars  == <<catalog_retriever, nops, mvars, returned, everLoaded, signalled, dvars>>

\* HTTP status the endpoints answer with when the service call raised
UploadErrorStatus == 500
MatchErrorStatus  == 500

Error(cause, kind, http) == [cause |-> cause, kind |-> kind, http |-> http]

\* ------------------------------------------------------ index builder
\* Document(text=..., metadata=...) of one row
Document(row) ==
    [text     |-> <<row.standard_name, row.manufacturer, row.description>>,
     metadata |-> [sku           |-> row.sku,
                   standard_name |-> row.standard_name,
                   category      |-> row.category,
                   manufacturer  |-> row.manufacturer,
                   unit_price    |-> row.unit_price]]

\* VectorStoreIndex.from_documents(documents).as_retriever(similarity_top_k=1)
similarity_top_k == 1
Retriever(docs) == [docs |-> docs, top_k |-> similarity_top_k]

\* the documents list after the loop has handled the first n rows
RECURSIVE DocumentsOf(_, _)
DocumentsOf(rows, n) ==
    IF n = 0 THEN <<>> ELSE Append(DocumentsOf(rows, n - 1), Document(rows[n]))

\* create_product_catalog_index(catalog_df).  failAt says where the engine
\* rejects the upload: 0 nowhere, k in 1..len at Document(...) of row k,
\* len+1 at VectorStoreIndex.from_documents.  documents is the local list
\* at that point; retriever is the value returned when nothing raised.
create_product_catalog_index(rows, failAt) ==
    IF failAt = 0
    THEN [raised    |-> FALSE,
          documents |-> DocumentsOf(rows, Len(rows)),
          retriever |-> Retriever(DocumentsOf(rows, Len(rows)))]
    ELSE [raised    |-> TRUE,
          documents |-> DocumentsOf(rows, failAt - 1),
          retriever |-> None]

\* variant: the loaded check always passes
is_catalog_loaded_Always == TRUE

is_catalog_loaded == catalog_retriever # None

\* the retrievers an accepted upload can install, and the query texts
Retrievers == {Retriever(DocumentsOf(df.rows, Len(df.rows))) : df \in GoodCatalogs}
Queries    == {item.line_item : item \in RFQLineItems}

Init ==
    /\ catalog_retriever = None
    /\ nops = 0
    /\ m_pc = "idle"
    /\ m_items = <<>>
    /\ m_i = 0
    /\ enriched_items = <<>>
    /\ m_target = None
    /\ m_query = None
    /\ m_start = None
    /\ m_from = <<>>
    /\ m_lastRaw = None
    /\ returned = None
    /\ everLoaded = FALSE
    /\ signalled = {}
    /\ engine = [key \in Retrievers \X Queries |-> None]
    /\ first = None

\* --------------------------------------------------- create_catalog_index
missing_columns(df) ==
    SelectSeq(catalog_required_columns, LAMBDA col : col \notin df.columns)

\* variant: the documents built so far are installed when the builder raises
HeldAfter_Partial(held, built) ==
    IF built.raised THEN Retriever(built.documents) ELSE built.retriever

\* variant: a failed upload clears the held index
HeldAfter_Reset(held, built) == IF built.raised THEN None ELSE built.retriever

\* line 56: self.catalog_retriever is assigned only when the builder returns
HeldAfter(held, built) == IF built.raised THEN held ELSE built.retriever

\* variant: len(catalog_df.columns)
Count_Columns(df) == Cardinality(df.columns)

\* line 58: len(catalog_df)
Count(df) == Len(df.rows)

LoadOk(df, before, count) ==
    [op |-> "create_catalog_index", request |-> df, before |-> before,
     status |-> "ok", value |-> count]
LoadFailed(df, before, kind, cause) ==
    [op |-> "create_catalog_index", request |-> df, before |-> before,
     status |-> "error", kind |-> kind, cause |-> cause]

\* the whole coroutine.  A missing column or a raising builder ends in the
\* except clause, which re-raises Exception("Error creating catalog index:
\* ..."); only a returning builder reaches the assignment and the return.
\* Both failures leave through the same clause and are the upload's one
\* failure kind for the caller; returned.cause keeps them apart.
create_catalog_index(df, failAt) ==
    /\ nops < MaxOps
    /\ nops' = nops + 1
    /\ IF missing_columns(df) # <<>>
       THEN /\ returned' = LoadFailed(df, catalog_retriever, "Exception", "missing_columns")
            /\ signalled' = signalled \cup {Error("catalog_build", "Exception", UploadErrorStatus)}
            /\ UNCHANGED <<catalog_retriever, everLoaded>>
       ELSE LET built == create_product_catalog_index(df.rows, failAt)
            IN  /\ catalog_retriever' = HeldAfter(catalog_retriever, built)
                /\ IF built.raised
                   THEN /\ returned' = LoadFailed(df, catalog_retriever, "Exception", "catalog_build")
                        /\ signalled' = signalled \cup
                               {Error("catalog_build", "Exception", UploadErrorStatus)}
                        /\ UNCHANGED everLoaded
                   ELSE /\ returned' = LoadOk(df, catalog_retriever, Count(df))
                        /\ everLoaded' = TRUE
                        /\ UNCHANGED signalled
    /\ UNCHANGED mvars

\* ------------------------------------------------------------ retriever
\* what aretrieve(query) on a retriever can do: raise, or return at most
\* top_k NodeWithScore objects taken from the index it was built on, with
\* whatever score the engine reports
Raise == [kind |-> "raise", matches |-> <<>>]
Results(retriever) ==
    {Raise}
    \cup {[kind |-> "ok", matches |-> <<>>]}
    \cup {[kind |-> "ok", matches |-> <<[metadata |-> retriever.docs[d].metadata, score |-> s]>>] :
             d \in 1..Len(retriever.docs), s \in RawScores}

\* what a result shows of the engine: raised, empty, or the top score
Raw(out) ==
    IF out.kind = "raise" THEN [kind |-> "raise", score |-> None]
    ELSE IF out.matches = <<>> THEN [kind |-> "empty", score |-> None]
    ELSE [kind |-> "match", score |-> out.matches[1].score]

\* ------------------------------------------------------ python builtins
IsNumber(x) == "float" \in DOMAIN x
\* a < b on floats: false whenever an operand is NaN
PyLt(a, b) == IsNumber(a) /\ IsNumber(b) /\ a.float < b.float
\* min(a, b) keeps a unless b < a; max(a, b) keeps a unless b > a
PyMin(a, b) == IF PyLt(b, a) THEN b ELSE a
PyMax(a, b) == IF PyLt(a, b) THEN b ELSE a

\* variant: the score is used as reported
Confidence_NoClamp(top_match) ==
    IF top_match.score # Absent /\ top_match.score # None THEN top_match.score ELSE Zero

\* lines 80-81: the score if present and not None, else 0.0, then clamped
Confidence(top_match) ==
    LET confidence == IF top_match.score # Absent /\ top_match.score # None
                      THEN top_match.score ELSE Zero
    IN  PyMax(Zero, PyMin(One, confidence))

\* ------------------------------------------------------ EnrichedLineItem
\* variant: the catalog's unit price replaces the quoted one
EnrichedMatch_CatalogPrice(item, metadata, confidence) ==
    [rfq_id             |-> item.rfq_id,
     original_line_item |-> item.line_item,
     quantity           |-> item.quantity,
     unit_price         |-> metadata.unit_price,
     date_              |-> item.date_,
     matched_sku        |-> metadata.sku,
     standard_name      |-> metadata.standard_name,
     category           |-> metadata.category,
     manufacturer       |-> metadata.manufacturer,
     match_confidence   |-> confidence]

\* variant: the category is left at its default
EnrichedMatch_NoCategory(item, metadata, confidence) ==
    [rfq_id             |-> item.rfq_id,
     original_line_item |-> item.line_item,
     quantity           |-> item.quantity,
     unit_price         |-> item.unit_price,
     date_              |-> item.date_,
     matched_sku        |-> metadata.sku,
     standard_name      |-> metadata.standard_name,
     category           |-> None,
     manufacturer       |-> metadata.manufacturer,
     match_confidence   |-> confidence]

\* the matched branch, lines 83-94
EnrichedMatch(item, metadata, confidence) ==
    [rfq_id             |-> item.rfq_id,
     original_line_item |-> item.line_item,
     quantity           |-> item.quantity,
     unit_price         |-> item.unit_price,
     date_              |-> item.date_,
     matched_sku        |-> metadata.sku,
     standard_name      |-> metadata.standard_name,
     category           |-> metadata.category,
     manufacturer       |-> metadata.manufacturer,
     match_confidence   |-> confidence]

\* variant: match_confidence keeps its default too
EnrichedNoMatch_NullConfidence(item) ==
    [rfq_id             |-> item.rfq_id,
     original_line_item |-> item.line_item,
     quantity           |-> item.quantity,
     unit_price         |-> item.unit_price,
     date_              |-> item.date_,
     matched_sku        |-> None,
     standard_name      |-> None,
     category           |-> None,
     manufacturer       |-> None,
     match_confidence   |-> None]

\* the no-match branch, lines 96-104: optional fields keep their default
EnrichedNoMatch(item) ==
    [rfq_id             |-> item.rfq_id,
     original_line_item |-> item.line_item,
     quantity           |-> item.quantity,
     unit_price         |-> item.unit_price,
     date_              |-> item.date_,
     matched_sku        |-> None,
     standard_name      |-> None,
     category           |-> None,
     manufacturer       |-> None,
     match_confidence   |-> Zero]

\* field constraints of the pydantic model: quantity ge 0, unit_price ge 0,
\* match_confidence None or within [0.0, 1.0] (NaN fails both comparisons)
Validates(e) ==
    /\ e.quantity >= 0
    /\ e.unit_price >= 0
    /\ \/ e.match_confidence = None
       \/ /\ IsNumber(e.match_confidence)
          /\ e.match_confidence.float >= Zero.float
          /\ e.match_confidence.float <= One.float

\* what a returning or raising match_line_items leaves with its caller;
\* retrievals and raw tell what the engine was asked and answered last
MatchOk(items, start, line_items, retrievals, raw) ==
    [op |-> "match_line_items", request |-> items, before |-> start,
     status |-> "ok", value |-> line_items, retrievals |-> retrievals, raw |-> raw]
MatchFailed(items, start, kind, cause, retrievals, built, raw) ==
    [op |-> "match_line_items", request |-> items, before |-> start,
     status |-> "error", kind |-> kind, cause |-> cause,
     retrievals |-> retrievals, built |-> built, raw |-> raw]

\* the locals of a call that has returned or raised
MatchOver ==
    /\ m_pc' = "idle"
    /\ m_items' = <<>>
    /\ m_i' = 0
    /\ enriched_items' = <<>>
    /\ m_target' = None
    /\ m_query' = None
    /\ m_start' = None
    /\ m_from' = <<>>
    /\ m_lastRaw' = None

\* ------------------------------------------------------ match_line_items
\* the call up to its first suspension: the loaded check, then either the
\* empty result or the first aretrieve on self.catalog_retriever (an
\* attribute error on a None retriever would be caught by the except clause)
match_line_items(items) ==
    /\ m_pc = "idle"
    /\ nops < MaxOps
    /\ nops' = nops + 1
    /\ IF ~is_catalog_loaded
       THEN /\ returned' = MatchFailed(items, catalog_retriever, "ValueError", "no_catalog", 0, 0, None)
            /\ signalled' = signalled \cup {Error("no_catalog", "ValueError", MatchErrorStatus)}
            /\ UNCHANGED mvars
       ELSE IF items = <<>>
       THEN /\ returned' = MatchOk(items, catalog_retriever, <<>>, 0, None)
            /\ UNCHANGED <<mvars, signalled>>
       ELSE IF catalog_retriever = None
       THEN /\ returned' = MatchFailed(items, catalog_retriever, "Exception", "attribute", 0, 0, None)
            /\ signalled' = signalled \cup {Error("attribute", "Exception", MatchErrorStatus)}
            /\ UNCHANGED mvars
       ELSE /\ m_pc' = "awaiting"
            /\ m_items' = items
            /\ m_i' = 1
            /\ enriched_items' = <<>>
            /\ m_target' = catalog_retriever
            /\ m_query' = items[1].line_item
            /\ m_start' = catalog_retriever
            /\ m_from' = <<catalog_retriever>>
            /\ m_lastRaw' = None
            /\ returned' = None
            /\ UNCHANGED signalled
    /\ UNCHANGED <<catalog_retriever, everLoaded>>

\* variant: a failed retrieval also discards the held index
RetrieveRaises_DropIndex ==
    /\ m_pc = "awaiting"
    /\ returned' = MatchFailed(m_items, m_start, "Exception", "retrieval",
                               Len(m_from), Len(enriched_items), Raw(Raise))
    /\ signalled' = signalled \cup {Error("retrieval", "Exception", MatchErrorStatus)}
    /\ MatchOver
    /\ catalog_retriever' = None
    /\ UNCHANGED <<nops, everLoaded>>

\* variant: the failure is swallowed and the items built so far are returned
RetrieveRaises_Partial ==
    /\ m_pc = "awaiting"
    /\ returned' = MatchOk(m_items, m_start, enriched_items, Len(m_from), Raw(Raise))
    /\ MatchOver
    /\ UNCHANGED <<catalog_retriever, nops, everLoaded, signalled>>

\* the pending aretrieve raises: the except clause logs and re-raises
\* Exception("Error matching SKUs: ..."); the local list is lost
RetrieveRaises ==
    /\ m_pc = "awaiting"
    /\ returned' = MatchFailed(m_items, m_start, "Exception", "retrieval",
                               Len(m_from), Len(enriched_items), Raw(Raise))
    /\ signalled' = signalled \cup {Error("retrieval", "Exception", MatchErrorStatus)}
    /\ MatchOver
    /\ UNCHANGED <<catalog_retriever, nops, everLoaded>>

\* the pending aretrieve returns: build the EnrichedLineItem, append it,
\* then either call aretrieve for the next item on self.catalog_retriever
\* as it is now, or return EnrichedRFQ(line_items=enriched_items)
RetrieveReturns(out) ==
    /\ m_pc = "awaiting"
    /\ out \in Results(m_target) \ {Raise}
    /\ LET item == m_items[m_i]
           enriched_item ==
               IF out.matches # <<>>
               THEN EnrichedMatch(item, out.matches[1].metadata, Confidence(out.matches[1]))
               ELSE EnrichedNoMatch(item)
       IN  IF ~Validates(enriched_item)
           THEN /\ returned' = MatchFailed(m_items, m_start, "Exception", "validation",
                                           Len(m_from), Len(enriched_items), Raw(out))
                /\ signalled' = signalled \cup {Error("validation", "Exception", MatchErrorStatus)}
                /\ MatchOver
           ELSE IF m_i = Len(m_items)
           THEN /\ returned' = MatchOk(m_items, m_start, Append(enriched_items, enriched_item),
                                       Len(m_from), Raw(out))
                /\ MatchOver
                /\ UNCHANGED signalled
           ELSE IF catalog_retriever = None
           THEN /\ returned' = MatchFailed(m_items, m_start, "Exception", "attribute",
                                           Len(m_from), Len(enriched_items) + 1, Raw(out))
                /\ signalled' = signalled \cup {Error("attribute", "Exception", MatchErrorStatus)}
                /\ MatchOver
           ELSE /\ enriched_items' = Append(enriched_items, enriched_item)
                /\ m_i' = m_i + 1
                /\ m_target' = catalog_retriever
                /\ m_query' = m_items[m_i + 1].line_item
                /\ m_from' = Append(m_from, catalog_retriever)
                /\ m_lastRaw' = Raw(out)
                /\ returned' = None
                /\ UNCHANGED <<m_pc, m_items, m_start, signalled>>
    /\ UNCHANGED <<catalog_retriever, nops, everLoaded>>

\* results the pending aretrieve may deliver
PendingResults == IF m_pc = "awaiting" THEN Results(m_target) ELSE {}

\* ------------------------------------------------------------------ spec
\* the engine answers each aretrieve as it likes
Next ==
    \/ \E df \in Catalogs : \E failAt \in 0..(Len(df.rows) + 1) :
           create_catalog_index(df, failAt) /\ UNCHANGED dvars
    \/ \E items \in Batches : match_line_items(items) /\ UNCHANGED dvars
    \/ RetrieveRaises /\ UNCHANGED dvars
    \/ \E out \in PendingResults : RetrieveReturns(out) /\ UNCHANGED dvars

Spec == Init /\ [][Next]_vars

\* ------------------------------------------------- service with a catalog
\* the service once a first upload, of CatalogA, has succeeded; the calls
\* counted are those made from then on
RetrieverOf(df) == Retriever(DocumentsOf(df.rows, Len(df.rows)))

InitAfterUpload ==
    /\ catalog_retriever = RetrieverOf(CatalogA)
    /\ everLoaded = TRUE
    /\ nops = 0
    /\ m_pc = "idle"
    /\ m_items = <<>>
    /\ m_i = 0
    /\ enriched_items = <<>>
    /\ m_target = None
    /\ m_query = None
    /\ m_start = None
    /\ m_from = <<>>
    /\ m_lastRaw = None
    /\ returned = None
    /\ signalled = {}
    /\ engine = [key \in Retrievers \X Queries |-> None]
    /\ first = None

SpecAfterUpload == InitAfterUpload /\ [][Next]_vars

\* ------------------------------------------- deterministic similarity engine
\* the same service with an engine that answers a query on an index the
\* same way every time: the first answer for (index, query) is kept
PendingKey == <<m_target, m_query>>
Answers(out) == engine[PendingKey] = None \/ engine[PendingKey] = out

\* the answers such an engine is taken from: raising, no candidate, or any
\* document of the index with an in-range or an out-of-range score
DetScores == {Float(5), Float(372)}
DetResults(retriever) ==
    {out \in Results(retriever) : out.matches # <<>> => out.matches[1].score \in DetScores}
PendingDetResults == IF m_pc = "awaiting" THEN DetResults(m_target) ELSE {}

\* first follows the calls: a call entered while first is None is recorded
\* with its request and the index held, and with its outcome once it ends
FirstEntered(items) ==
    [request |-> items, before |-> catalog_retriever, at |-> nops', done |-> FALSE,
     call |-> None]
FirstAfterStep ==
    IF first # None /\ ~first.done /\ returned' # None
    THEN [first EXCEPT !.done = TRUE, !.call = returned']
    ELSE first

DetLoad(df, failAt) ==
    /\ create_catalog_index(df, failAt)
    /\ first' = None
    /\ UNCHANGED engine

DetMatch(items) ==
    /\ match_line_items(items)
    /\ first' = IF first # None THEN first
                ELSE IF returned' # None
                THEN [FirstEntered(items) EXCEPT !.done = TRUE, !.call = returned']
                ELSE FirstEntered(items)
    /\ UNCHANGED engine

DetRetrieveRaises ==
    /\ m_pc = "awaiting"
    /\ Answers(Raise)
    /\ RetrieveRaises
    /\ engine' = [engine EXCEPT ![PendingKey] = Raise]
    /\ first' = FirstAfterStep

DetRetrieveReturns(out) ==
    /\ m_pc = "awaiting"
    /\ out # Raise
    /\ Answers(out)
    /\ RetrieveReturns(out)
    /\ engine' = [engine EXCEPT ![PendingKey] = out]
    /\ first' = FirstAfterStep

DetNext ==
    \/ \E df \in Catalogs : \E failAt \in 0..(Len(df.rows) + 1) : DetLoad(df, failAt)
    \/ \E items \in Batches : DetMatch(items)
    \/ DetRetrieveRaises
    \/ \E out \in PendingDetResults : DetRetrieveReturns(out)

SpecDet == Init /\ [][DetNext]_vars

\* ================================================================ claims
IsMatch   == returned # None /\ returned.op = "match_line_items"
IsLoad    == returned # None /\ returned.op = "create_catalog_index"
MatchedOk == IsMatch /\ returned.status = "ok"

\* output i carries the copy-through fields of input i
CopiedThrough(out, item) ==
    /\ out.rfq_id = item.rfq_id
    /\ out.original_line_item = item.line_item
    /\ out.quantity = item.quantity
    /\ out.unit_price = item.unit_price
    /\ out.date_ = item.date_

\* C1: a match_line_items call that returns hands back exactly one
\* EnrichedLineItem per input item, in input order, each with rfq_id,
\* original_line_item, quantity, unit_price and date equal to its input's;
\* the list under construction is always the outputs of the items handled
\* so far, in order.
C1_OnePerItemInOrder ==
    /\ MatchedOk =>
          /\ Len(returned.value) = Len(returned.request)
          /\ \A i \in 1..Len(returned.request) :
                 CopiedThrough(returned.value[i], returned.request[i])
    /\ m_pc = "awaiting" =>
          /\ Len(enriched_items) = m_i - 1
          /\ \A i \in 1..Len(enriched_items) : CopiedThrough(enriched_items[i], m_items[i])

C1_Witness ==
    /\ MatchedOk
    /\ Len(returned.request) = 2
    /\ returned.request[1] # returned.request[2]
    /\ returned.value[1].matched_sku # None

\* C2: every retrieval of a running match_line_items call goes to the index
\* that was held when the call started, also after an upload replaced the
\* held index in between.
C2_SnapshotPerBatch ==
    m_pc = "awaiting" => \A i \in 1..Len(m_from) : m_from[i] = m_start

\* the confidence the contract gives a raw score
ContractConfidence(score) ==
    IF score = None \/ score = Absent THEN {Zero}
    ELSE IF IsNumber(score) /\ score.float < 0 THEN {Zero}
    ELSE IF IsNumber(score) /\ score.float > One.float THEN {One}
    ELSE IF IsNumber(score) THEN {score}
    ELSE {Float(v) : v \in 0..One.float}

InUnitRange(c) == IsNumber(c) /\ 0 <= c.float /\ c.float <= One.float

\* the outputs that exist: the list under construction and a returned list
Outputs ==
    Range(enriched_items) \cup (IF MatchedOk THEN Range(returned.value) ELSE {})

\* the engine's last answer paired with the output built from it
LastAnswered ==
    IF m_pc = "awaiting" /\ enriched_items # <<>>
    THEN {[raw |-> m_lastRaw, out |-> Last(enriched_items)]}
    ELSE IF MatchedOk /\ returned.value # <<>>
    THEN {[raw |-> returned.raw, out |-> Last(returned.value)]}
    ELSE {}

\* C3: every output's match_confidence is a number within [0.0, 1.0]; the
\* output built from a scored candidate has 0.0 for a raw score below 0, 1.0
\* for one above 1, the raw score itself within [0, 1], and 0.0 for an absent
\* or null score; and no call ends in a validation error.
C3_ConfidenceClamped ==
    /\ \A e \in Outputs : InUnitRange(e.match_confidence)
    /\ \A a \in LastAnswered :
           a.raw.kind = "match" => a.out.match_confidence \in ContractConfidence(a.raw.score)
    /\ IsMatch /\ returned.status = "error" => returned.cause # "validation"

C3_Witness ==
    /\ MatchedOk
    /\ returned.value # <<>>
    /\ returned.raw.kind = "match"
    /\ returned.raw.score = Float(372)
    /\ Last(returned.value).match_confidence = One

\* C4: while no upload has ever succeeded, a match_line_items call raises the
\* not-loaded error at once, whatever the batch: it issues no retrieval,
\* returns no output, and no retrieval is ever pending.
C4_NoCatalogFailsFast ==
    ~everLoaded =>
        /\ m_pc = "idle"
        /\ IsMatch =>
              /\ returned.status = "error"
              /\ returned.cause = "no_catalog"
              /\ returned.kind = "ValueError"
              /\ returned.retrievals = 0

C4_Witness ==
    /\ ~everLoaded
    /\ IsMatch
    /\ returned.status = "error"
    /\ returned.cause = "no_catalog"
    /\ Len(returned.request) = 2

\* C5: a create_catalog_index call that raises (missing column or raising
\* builder) leaves self.catalog_retriever the object it was before the call.
C5_FailedLoadKeepsIndex ==
    IsLoad /\ returned.status = "error" => catalog_retriever = returned.before

C5_Witness ==
    /\ IsLoad
    /\ returned.status = "error"
    /\ returned.cause = "catalog_build"
    /\ returned.before = Retriever(DocumentsOf(CatalogA.rows, 2))
    /\ returned.request = CatalogB
    /\ catalog_retriever = returned.before

\* C6: when the k-th retrieval of a call raises, the call raises Exception
\* for that retrieval failure, returns no list (the k-1 outputs built are
\* dropped), has issued exactly k retrievals and leaves none pending.
C6_RetrievalFailureAborts ==
    IsMatch /\ returned.raw # None /\ returned.raw.kind = "raise" =>
        /\ returned.status = "error"
        /\ returned.kind = "Exception"
        /\ returned.cause = "retrieval"
        /\ returned.retrievals = returned.built + 1
        /\ returned.retrievals <= Len(returned.request)
        /\ m_pc = "idle"
        /\ enriched_items = <<>>

C6_Witness ==
    /\ IsMatch
    /\ returned.status = "error"
    /\ returned.cause = "retrieval"
    /\ returned.built = 1
    /\ returned.retrievals = 2

\* C7: an item whose retrieval came back empty gets matched_sku,
\* standard_name, category and manufacturer None and match_confidence 0.0;
\* the call goes on or returns normally with one output per item; in every
\* output the four match fields are null together.
C7_NoMatchIsZero ==
    /\ \A a \in LastAnswered :
           a.raw.kind = "empty" =>
               /\ a.out.matched_sku = None
               /\ a.out.standard_name = None
               /\ a.out.category = None
               /\ a.out.manufacturer = None
               /\ a.out.match_confidence = Zero
    /\ \A e \in Outputs :
           e.matched_sku = None =>
               /\ e.standard_name = None
               /\ e.category = None
               /\ e.manufacturer = None
               /\ e.match_confidence = Zero
    /\ IsMatch /\ returned.raw # None /\ returned.raw.kind = "empty" =>
           returned.status = "ok" /\ Len(returned.value) = Len(returned.request)

C7_Witness ==
    /\ MatchedOk
    /\ Len(returned.value) = 2
    /\ returned.value[1].matched_sku = None
    /\ returned.value[1].match_confidence = Zero
    /\ returned.value[2].matched_sku # None

\* C8: a create_catalog_index call that returns gives the number of rows of
\* the uploaded catalog, and from the first such return on is_catalog_loaded
\* is true.
C8_CountAndLoaded ==
    /\ IsLoad /\ returned.status = "ok" =>
           /\ returned.value = Len(returned.request.rows)
           /\ returned.request \in GoodCatalogs
           /\ is_catalog_loaded
    /\ everLoaded => is_catalog_loaded

C8_Witness ==
    /\ IsLoad
    /\ returned.status = "ok"
    /\ returned.request = CatalogA
    /\ returned.value = 2
    /\ is_catalog_loaded

\* an index holding one document per row of some accepted catalog, in order
FullyBuilt(r) ==
    /\ r # None
    /\ \E df \in GoodCatalogs :
           /\ Len(r.docs) = Len(df.rows)
           /\ \A k \in 1..Len(df.rows) :
                  /\ r.docs[k].metadata.sku = df.rows[k].sku
                  /\ r.docs[k].text = <<df.rows[k].standard_name, df.rows[k].manufacturer,
                                        df.rows[k].description>>

\* C9: once an upload has succeeded, self.catalog_retriever is never None
\* again and always a fully built index, and so is the retriever a pending
\* aretrieve was called on.
C9_ReadersSeeFullIndex ==
    /\ everLoaded => FullyBuilt(catalog_retriever)
    /\ m_pc = "awaiting" => FullyBuilt(m_target)

C9_Witness ==
    /\ IsLoad
    /\ returned.status = "ok"
    /\ returned.before # None
    /\ returned.before # catalog_retriever
    /\ m_pc = "awaiting"
    /\ m_target = returned.before

\* C10: a catalog build failure, a match without a catalog and a retrieval
\* failure are told apart by the kind of error raised: any two of them differ
\* in exception class or in the status the endpoint answers with.
TaxonomyCauses == {"catalog_build", "no_catalog", "retrieval"}
C10_FailureKindsDistinct ==
    \A e1, e2 \in signalled :
        (e1.cause \in TaxonomyCauses /\ e2.cause \in TaxonomyCauses /\ e1.cause # e2.cause)
            => (e1.kind # e2.kind \/ e1.http # e2.http)

\* C11: with a deterministic engine and no upload since the first call was
\* entered, a match_line_items call with the same items ends exactly as the
\* first one did (same list, or the same error after the same retrievals);
\* and match calls leave self.catalog_retriever the object it was.
C11_RepeatIsIdentical ==
    first # None =>
        /\ catalog_retriever = first.before
        /\ (IsMatch /\ first.done /\ returned.request = first.request) =>
               returned = first.call

C11_Witness ==
    /\ IsMatch
    /\ first # None
    /\ first.done
    /\ first.at < nops
    /\ returned.request = first.request
    /\ returned.status = "ok"
    /\ Len(returned.value) = 2
    /\ returned.value[1].matched_sku # None
    /\ returned.value[2].matched_sku = None

\* the output is the candidate of one row of the catalog
FromCatalog(e, df) ==
    \E k \in 1..Len(df.rows) :
        /\ e.matched_sku = df.rows[k].sku
        /\ e.standard_name = df.rows[k].standard_name
        /\ e.category = df.rows[k].category
        /\ e.manufacturer = df.rows[k].manufacturer

\* C12: once CatalogB has replaced the loaded CatalogA, a match_line_items
\* call that starts on B's index is matched against B only: every candidate
\* in its outputs, while it runs and when it returns, is an entry of B.
C12_OnlyTheReplacement ==
    /\ (m_pc = "awaiting" /\ m_start = RetrieverOf(CatalogB)) =>
           \A e \in Range(enriched_items) : e.matched_sku # None => FromCatalog(e, CatalogB)
    /\ (MatchedOk /\ returned.before = RetrieverOf(CatalogB)) =>
           \A e \in Range(returned.value) : e.matched_sku # None => FromCatalog(e, CatalogB)

\* the output names one document of the index: its four fields are that
\* document's metadata
OneEntryOf(e, retriever) ==
    \E d \in 1..Len(retriever.docs) :
        /\ e.matched_sku = retriever.docs[d].metadata.sku
        /\ e.standard_name = retriever.docs[d].metadata.standard_name
        /\ e.category = retriever.docs[d].metadata.category
        /\ e.manufacturer = retriever.docs[d].metadata.manufacturer

\* C13: match_line_items issues one retrieval per item, in order, with the
\* item's line_item as the query, on a retriever built with top_k 1; and an
\* output with a match carries the sku, standard_name, category and
\* manufacturer of one single document of the index its retrieval was sent to.
C13_OneRetrievalOneEntry ==
    /\ m_pc = "awaiting" =>
           /\ Len(m_from) = m_i
           /\ Len(enriched_items) = m_i - 1
           /\ m_query = m_items[m_i].line_item
           /\ m_target = m_from[m_i]
           /\ \A i \in 1..m_i : m_from[i].top_k = 1
           /\ \A i \in 1..Len(enriched_items) :
                  enriched_items[i].matched_sku # None =>
                      OneEntryOf(enriched_items[i], m_from[i])
    /\ MatchedOk =>
           /\ returned.retrievals = Len(returned.request)
           /\ \A i \in 1..Len(returned.value) :
                  returned.value[i].matched_sku # None =>
                      \E retriever \in Retrievers : OneEntryOf(returned.value[i], retriever)

\* the second retrieval of a batch of two different items is pending and the
\* first one was answered with the second entry of CatalogA
C13_Witness ==
    /\ m_pc = "awaiting"
    /\ m_i = 2
    /\ m_items[1].line_item # m_items[2].line_item
    /\ m_query = m_items[2].line_item
    /\ enriched_items[1].matched_sku = Cell("sku", "A", 2)

====
